---- MODULE Spec2Model ----
(***************************************************************************)
(* A model of gammaProf / shearfit:                                        *)
(*   - obs_lens_system (src/shearfit/lensing_system.py): the lens object,  *)
(*     its background catalog, its property setters and its queries;       *)
(*   - fit_nfw_profile_lstq, _nfw_fit_residual, fit_nfw_profile_gridscan   *)
(*     (src/shearfit/fit_profile.py and src/gammaProf/fit_profile.py).     *)
(* Floating point quantities are integers in fixed units; numpy arrays are *)
(* sequences; the unset value None and the 0-d array np.array(None) are    *)
(* two distinct values, neither of which supports arithmetic.              *)
(***************************************************************************)
EXTENDS Integers, Sequences, FiniteSets, TLC

VARIABLES
    lens,          \* the obs_lens_system object
    last,          \* the last call on it: its name, arguments, outcome, result
    bg_succeeded,  \* whether a set_background call has returned normally
    fit            \* the running fit_nfw_profile_lstq / _gridscan call

vars == <<lens, last, bg_succeeded, fit>>

---------------------------------------------------------------------------
(* Values                                                                  *)

\* Every attribute value is a tagged record: Python's None, the 0-d object
\* array np.array(None), an attribute that was never created, or an array
None == [kind |-> "None", v |-> <<>>]
\* np.array(None): what set_background stores for an argument left at None
NoneArr == [kind |-> "array(None)", v |-> <<>>]
\* an attribute that __init__ never created (self._rho)
Undef == [kind |-> "undefined", v |-> <<>>]
Arr(s) == [kind |-> "array", v |-> s]
\* a method bound to the object: what reading a plain function of the class
\* through an instance gives
BoundMethod == [kind |-> "method", v |-> <<>>]

\* number of background sources of a catalog
CatLen == 2

IsArr(a) == a.kind = "array"

Asc(a) == Arr([i \in 1..CatLen |-> a + i])
Desc(a) == Arr([i \in 1..CatLen |-> a + CatLen + 1 - i])

\* np.array(x) of an argument: an array stays an array, None becomes array(None)
NpArray(x) == IF x = None THEN NoneArr ELSE x

\* the exceptions the code raises
ConfigurationError == "Exception"
StateError == "AssertionError"
TypeError == "TypeError"
ValueError == "ValueError"
Ok == "ok"

RECURSIVE IsqrtFrom(_, _)
IsqrtFrom(n, x) == IF (x + 1) * (x + 1) > n THEN x ELSE IsqrtFrom(n, x + 1)
\* np.sqrt, rounded down to the unit
Isqrt(n) == IsqrtFrom(n, 0)

---------------------------------------------------------------------------
(* Cosmology (astropy), as used by the lens object                         *)

Cosmologies == {"WMAP7", "Planck15"}

\* cosmo.h in tenths
HubbleH(c) == IF c = "WMAP7" THEN 7 ELSE 6

\* cosmo.comoving_distance(z).value
ComovingDistance(c, z) == IF c = "WMAP7" THEN 4 * z ELSE 5 * z

\* cosmo.angular_diameter_distance(z).value
AngularDiameterDistance(c, z) == IF c = "WMAP7" THEN 3 * z ELSE 4 * z

\* critical surface density of one source redshift z for a lens at zl:
\* C^2/(4 pi G) * Ds/(Dl*Dls) * a^2/(1e12 h), with a = 1/(1+zl)
SigmaScale == 1000
SigmaCritAt(c, zl, z) ==
    LET Ds == AngularDiameterDistance(c, z)
        Dl == AngularDiameterDistance(c, zl)
        Dls == Ds - Dl
    IN  (SigmaScale * Ds) \div (Dl * Dls * (1 + zl) * (1 + zl) * HubbleH(c))

---------------------------------------------------------------------------
(* obs_lens_system: pure helpers                                           *)

\* (np.pi/180) * (theta/3600): arcseconds to radians, in units in which one
\* arcsecond is RadPerArcsec
RadPerArcsec == 5
ToRad(a) == Arr([i \in 1..Len(a.v) |-> a.v[i] * RadPerArcsec])
\* 180/np.pi * theta * 3600: radians back to arcseconds
ToArcsec(a) == Arr([i \in 1..Len(a.v) |-> a.v[i] \div RadPerArcsec])

\* np.linalg.norm([tan(theta1), tan(theta2)], axis=0) * comoving_distance(zl) * h
\* (small angles: tan(theta) is theta to the unit)
ProjectedRadius(t1, t2, c, zl) ==
    Arr([i \in 1..Len(t1.v) |->
           Isqrt(t1.v[i] * t1.v[i] + t2.v[i] * t2.v[i])
             * ComovingDistance(c, zl) * HubbleH(c)])

\* np.arctan(theta2/theta1), in degrees, linear in the ratio up to 90
PhiOf(t1, t2) ==
    Arr([i \in 1..Len(t1.v) |->
           IF t1.v[i] = 0 \/ 45 * t2.v[i] >= 90 * t1.v[i] THEN 90
           ELSE (45 * t2.v[i]) \div t1.v[i]])

\* np.sqrt(y1**2 + y2**2)
ShearMagnitude(a1, a2) ==
    Arr([i \in 1..Len(a1.v) |-> Isqrt(a1.v[i] * a1.v[i] + a2.v[i] * a2.v[i])])

\* (faulty variant: only the call without any shear is rejected)
ShearArgsRejectedNeitherOnly(a1, a2, at) ==
    a1 = None /\ a2 = None /\ at = None

\* the argument test of set_background: no shear at all, or components
\* together with yt
ShearArgsRejected(a1, a2, at) ==
    \/ (a1 = None /\ a2 = None /\ at = None)
    \/ ((a1 # None \/ a2 # None) /\ at # None)

\* the result of a call that changes the object: the object it leaves and
\* how the call ended
Res(l, o) == [obj |-> l, outcome |-> o]

\* _check_sources
CheckSources(l) == l.has_sources

\* _comp_bg_quantities: r, then in components mode phi and yt
CompBgQuantities(l) ==
    IF ~CheckSources(l) THEN Res(l, StateError)
    ELSE IF ~(IsArr(l.theta1) /\ IsArr(l.theta2)) THEN Res(l, TypeError)
    ELSE LET l1 == [l EXCEPT !.r = ProjectedRadius(l.theta1, l.theta2, l.cosmo, l.zl)]
         IN  IF ~l1.has_shear12 THEN Res(l1, Ok)
             ELSE LET l2 == [l1 EXCEPT !.phi = PhiOf(l.theta1, l.theta2)]
                  IN  IF IsArr(l2.y1) /\ IsArr(l2.y2)
                      THEN Res([l2 EXCEPT !.yt = ShearMagnitude(l2.y1, l2.y2)], Ok)
                      ELSE Res(l2, TypeError)

\* the mode flags set_background sets
ShearFlagAfter(l, at) == IF at = None THEN TRUE ELSE l.has_shear12
KappaFlagAfter(l, ak) == IF ak # None THEN TRUE ELSE l.has_kappa
RhoFlagAfter(l, arho) == IF arho # None THEN TRUE ELSE l.has_rho

\* set_background
SetBackgroundOn(l, t1, t2, z, a1, a2, at, ak, arho) ==
    IF ShearArgsRejected(a1, a2, at) THEN Res(l, ConfigurationError)
    ELSE CompBgQuantities(
           [l EXCEPT !.theta1 = ToRad(t1), !.theta2 = ToRad(t2),
                     !.zs = NpArray(z),
                     !.y1 = NpArray(a1), !.y2 = NpArray(a2), !.yt = NpArray(at),
                     !.k = NpArray(ak), !.rho = NpArray(arho),
                     !.has_shear12 = ShearFlagAfter(l, at),
                     !.has_kappa = KappaFlagAfter(l, ak),
                     !.has_rho = RhoFlagAfter(l, arho),
                     !.has_sources = TRUE])

\* the property setters
SetCosmoOn(l, value) == CompBgQuantities([l EXCEPT !.cosmo = value])
\* (faulty variant: the theta1 setter without the recomputation)
SetTheta1OnNoRecompute(l, value) ==
    IF ~CheckSources(l) THEN Res([l EXCEPT !.theta1 = value], StateError)
    ELSE Res([l EXCEPT !.theta1 = value], Ok)
SetTheta1On(l, value) == CompBgQuantities([l EXCEPT !.theta1 = value])
SetTheta2On(l, value) == CompBgQuantities([l EXCEPT !.theta2 = value])
SetZsOn(l, value) == CompBgQuantities([l EXCEPT !.zs = value])
SetKOn(l, value) ==
    Res([l EXCEPT !.k = value, !.has_kappa = (value # None)], Ok)
\* (faulty variant: the y1 setter without its mode guard)
SetY1OnUnguarded(l, value) == CompBgQuantities([l EXCEPT !.y1 = value])
SetY1On(l, value) ==
    IF ~l.has_shear12 THEN Res(l, ConfigurationError)
    ELSE CompBgQuantities([l EXCEPT !.y1 = value])
SetY2On(l, value) ==
    IF ~l.has_shear12 THEN Res(l, ConfigurationError)
    ELSE CompBgQuantities([l EXCEPT !.y2 = value])
\* the yt setter warns and leaves components mode when components were in use
YtSetterWarns(l) == l.has_shear12 \/ l.has_shear1 \/ l.has_shear2
SetYtOn(l, value) ==
    IF YtSetterWarns(l)
    THEN CompBgQuantities([l EXCEPT !.yt = value, !.has_shear12 = FALSE,
                                    !.y1 = None, !.y2 = None])
    ELSE CompBgQuantities([l EXCEPT !.yt = value])

\* what a call hands back: a list of named columns, empty when it raised
NoData == <<>>
Out(o, d) == [outcome |-> o, ret |-> d]

\* the columns get_background assembles, in the order of bg_dtypes
BgColumns(l) ==
    <<  <<"theta1", ToArcsec(l.theta1)>>, <<"theta2", ToArcsec(l.theta2)>>,
        <<"r", l.r>>, <<"zs", l.zs>>, <<"yt", l.yt>> >>
    \o (IF l.has_shear12 THEN << <<"y1", l.y1>>, <<"y2", l.y2>> >> ELSE <<>>)
    \o (IF l.has_kappa THEN << <<"k", l.k>> >> ELSE <<>>)
    \o (IF l.has_rho THEN << <<"rho", l.rho>> >> ELSE <<>>)

\* get_background: np.rec.fromarrays refuses columns that are not all arrays
\* of the catalog's shape
GetBackgroundOf(l) ==
    IF ~CheckSources(l) THEN Out(StateError, NoData)
    ELSE IF ~(IsArr(l.theta1) /\ IsArr(l.theta2)) THEN Out(TypeError, NoData)
    ELSE LET cols == BgColumns(l)
         IN  IF \A i \in 1..Len(cols) : IsArr(cols[i][2])
             THEN Out(Ok, cols)
             ELSE Out(ValueError, NoData)

\* the class attribute r: the undecorated def r(self, value) replaces the
\* property of the line before, so r is a plain function. Assigning obj.r
\* stores the value in the instance and calls nothing; reading obj.r gives
\* the stored value, or the bound method when nothing was stored
SetROn(l, value) == Res([l EXCEPT !.r_attr = value], Ok)
RGetter(l) == IF l.r_attr = Undef THEN BoundMethod ELSE l.r_attr

\* the zs property: the getter of the property that zs is built from with
\* @theta1.setter, which is theta1's
ZsGetter(l) == l.theta1

\* Sigma_crit of an array of source redshifts
SigmaCrit(l, z) ==
    Arr([i \in 1..Len(z.v) |-> SigmaCritAt(l.cosmo, l.zl, z.v[i])])

\* calc_sigma_crit(zs): with zs omitted the catalog's redshifts are used
CalcSigmaCritOf(l, zsArg) ==
    IF zsArg = None
    THEN IF ~CheckSources(l) THEN Out(StateError, NoData)
         ELSE IF ~IsArr(l.zs) THEN Out(TypeError, NoData)
         ELSE Out(Ok, << <<"Sigma_crit", SigmaCrit(l, l.zs)>> >>)
    ELSE Out(Ok, << <<"Sigma_crit", SigmaCrit(l, zsArg)>> >>)

---------------------------------------------------------------------------
(* Collaborators of the fitting functions: the NFW profile object          *)
(* (analytic_profiles.NFW) and the c-M relation (mass_concentration)       *)

RECURSIVE SumSeq(_)
SumSeq(q) == IF q = <<>> THEN 0 ELSE Head(q) + SumSeq(Tail(q))
\* np.mean
Mean(q) == SumSeq(q) \div Len(q)
\* np.std: sqrt(mean(x^2) - mean(x)^2) = sqrt(N*sum(x^2) - sum(x)^2) / N
Std(q) ==
    Isqrt(Len(q) * SumSeq([i \in 1..Len(q) |-> q[i] * q[i]])
            - SumSeq(q) * SumSeq(q)) \div Len(q)

\* r200c, c and their errors are in tenths: Unit is 1.0
Unit == 10

\* an NFW object: the fit parameters and their errors
Profile(r200c, c, r200c_err, c_err) ==
    [r200c |-> r200c, c |-> c, r200c_err |-> r200c_err, c_err |-> c_err]

\* NFW.delta_sigma at one radius, for the profile's current r200c and c
DeltaSigmaAt(p, r) == (p.r200c * p.r200c * p.r200c * p.c) \div r

\* NFW.radius_to_mass, from the profile's current r200c
RadiusToMass(p) == p.r200c * p.r200c * p.r200c

\* child2018(m200c, zl, cosmo): the concentration and its intrinsic scatter
CMConc(m) ==
    IF m <= Unit * Unit * Unit THEN 3 * Unit
    ELSE IF m <= 8 * Unit * Unit * Unit THEN 2 * Unit
    ELSE Unit
CMScatter(m) == CMConc(m) \div 3

---------------------------------------------------------------------------
(* _nfw_fit_residual                                                       *)

\* (faulty variant: only the radius is written to the profile)
ResidualProfileRadiusOnly(fit_params, p) == [p EXCEPT !.r200c = fit_params[1]]

\* the profile as _nfw_fit_residual leaves it
ResidualProfile(fit_params, p) ==
    IF Len(fit_params) > 1
    THEN [p EXCEPT !.r200c = fit_params[1], !.c = fit_params[2]]
    ELSE LET p1 == [p EXCEPT !.r200c = fit_params[1]]
         IN  [p1 EXCEPT !.c = CMConc(RadiusToMass(p1))]

\* the residuals it returns: dSigma_nfw - dSigma_data
Residuals(fit_params, p, r, dSigma_data) ==
    LET q == ResidualProfile(fit_params, p)
    IN  [i \in 1..Len(r) |-> DeltaSigmaAt(q, r[i]) - dSigma_data[i]]

\* np.sum(residuals**2)
SumSq(res) == SumSeq([i \in 1..Len(res) |-> res[i] * res[i]])

---------------------------------------------------------------------------
(* The state of a call of fit_nfw_profile_lstq or fit_nfw_profile_gridscan *)

\* no OptimizeResult yet
NoRes == [x |-> <<>>, success |-> FALSE, set |-> FALSE]

\* before the call: the caller holds the profile p
FitIdleWith(p) ==
    [pc |-> "idle", fn |-> "none", module |-> "none", outcome |-> "idle",
     \* the arguments
     cM |-> FALSE, bootstrap |-> FALSE, bootN |-> 0, Nsigma |-> 1,
     bin_data |-> FALSE, bins |-> 0,
     r200_bounds |-> <<0, 0>>, conc_bounds |-> <<0, 0>>, n |-> 0,
     \* the profile objects: the caller's, the deep copy, and which of the
     \* two the residual function is handed
     caller |-> p, copy |-> p, target |-> "caller",
     \* the locals
     rad_init |-> 0, conc_init |-> 0, fit_params |-> <<>>,
     r_all |-> <<>>, dSigma_data_all |-> <<>>, r |-> <<>>, dSigma_data |-> <<>>,
     r_i |-> <<>>, dSigma_data_i |-> <<>>,
     x |-> <<>>, nfev |-> 0, res |-> NoRes, res_i |-> NoRes,
     \* the last call of _nfw_fit_residual: its fit_params and what it returned
     params |-> <<>>, residuals |-> <<>>,
     boot_n |-> 0, params_bootstrap |-> <<>>, c_intr_scatter_bootstrap |-> <<>>,
     \* the local m200c of each bootstrap realisation (0 when c is free)
     m200c_bootstrap |-> <<>>,
     param_err |-> <<0, 0>>,
     rsamp |-> <<>>, csamp |-> <<>>, gi |-> 0, gj |-> 0, cost |-> <<>>]

\* the fitting functions are not running
FitIdle == FitIdleWith(Profile(Unit, Unit, 0, 0))

---------------------------------------------------------------------------
(* obs_lens_system: inputs, state and operations                           *)

\* lens redshifts an object is constructed with
ZlIn == {1}
\* angular positions in arcseconds, as passed to set_background
Theta1In == {Asc(2)}
Theta2In == {Asc(2)}
\* angular positions in radians, as assigned through the setters
Theta1Set == {ToRad(Desc(2))}
Theta2Set == {ToRad(Desc(2))}
\* source redshifts (behind every lens of ZlIn): set_background's, the setter's
ZsIn == {Asc(2)}
ZsSet == {Asc(2)}
\* shear arrays: set_background's, the setters'
Y1In == {Asc(2)}
Y2In == {Desc(2)}
YtIn == {Desc(2)}
Y1Set == {Desc(2)}
Y2Set == {Asc(2)}
YtSet == {Asc(2)}
\* convergence and density arrays
KappaIn == {Asc(0)}
RhoIn == {Asc(0)}
\* radii a caller assigns to the attribute r
RSet == {Asc(0)}

Opt(S) == S \cup {None}

\* the arguments of the last call that the properties refer to: the shear
\* arguments of set_background, the zs argument of calc_sigma_crit
NoArgs == [y1 |-> None, y2 |-> None, yt |-> None, zs |-> None]

\* __init__
NewLens(zl, c) ==
    [zl |-> zl, cosmo |-> c,
     has_sources |-> FALSE, has_shear12 |-> FALSE, has_shear1 |-> FALSE,
     has_shear2 |-> FALSE, has_kappa |-> FALSE, has_rho |-> FALSE,
     theta1 |-> None, theta2 |-> None, zs |-> None, r |-> None, phi |-> None,
     y1 |-> None, y2 |-> None, yt |-> None, k |-> None, rho |-> Undef,
     \* the entry r of the instance's own attributes (not self._r)
     r_attr |-> Undef]

NoCall == [op |-> "init", outcome |-> Ok, warned |-> FALSE, args |-> NoArgs,
           ret |-> NoData]

\* a call that changes the object
Changed(op, res, w, a) ==
    /\ lens' = res.obj
    /\ last' = [op |-> op, outcome |-> res.outcome, warned |-> w, args |-> a,
                ret |-> NoData]
    /\ bg_succeeded' = (bg_succeeded \/ (op = "set_background" /\ res.outcome = Ok))
    /\ UNCHANGED fit

\* (faulty variant: a query that forgets the catalog)
QueriedForgetting(op, out, a) ==
    /\ last' = [op |-> op, outcome |-> out.outcome, warned |-> FALSE,
                args |-> a, ret |-> out.ret]
    /\ lens' = [lens EXCEPT !.has_sources = FALSE]
    /\ UNCHANGED <<bg_succeeded, fit>>

\* a call that only reads it
Queried(op, out, a) ==
    /\ last' = [op |-> op, outcome |-> out.outcome, warned |-> FALSE,
                args |-> a, ret |-> out.ret]
    /\ UNCHANGED <<lens, bg_succeeded, fit>>

SetBackground ==
    \E t1 \in Theta1In, t2 \in Theta2In, z \in ZsIn,
       a1 \in Opt(Y1In), a2 \in Opt(Y2In), at \in Opt(YtIn),
       ak \in Opt(KappaIn), arho \in Opt(RhoIn) :
        Changed("set_background",
                SetBackgroundOn(lens, t1, t2, z, a1, a2, at, ak, arho), FALSE,
                [NoArgs EXCEPT !.y1 = a1, !.y2 = a2, !.yt = at])

SetCosmo ==
    \E value \in Cosmologies :
        Changed("cosmo", SetCosmoOn(lens, value), FALSE, NoArgs)

SetTheta1 ==
    \E value \in Theta1Set :
        Changed("theta1", SetTheta1On(lens, value), FALSE, NoArgs)

SetTheta2 ==
    \E value \in Theta2Set :
        Changed("theta2", SetTheta2On(lens, value), FALSE, NoArgs)

SetZs ==
    \E value \in ZsSet :
        Changed("zs", SetZsOn(lens, value), FALSE, NoArgs)

SetK ==
    \E value \in Opt(KappaIn) :
        Changed("k", SetKOn(lens, value), FALSE, NoArgs)

SetY1 ==
    \E value \in Y1Set :
        Changed("y1", SetY1On(lens, value), FALSE, NoArgs)

SetY2 ==
    \E value \in Y2Set :
        Changed("y2", SetY2On(lens, value), FALSE, NoArgs)

SetYt ==
    \E value \in YtSet :
        Changed("yt", SetYtOn(lens, value), YtSetterWarns(lens), NoArgs)

GetBackground == Queried("get_background", GetBackgroundOf(lens), NoArgs)

CalcSigmaCrit ==
    \E zsArg \in Opt({Desc(2)}) :
        Queried("calc_sigma_crit", CalcSigmaCritOf(lens, zsArg),
                [NoArgs EXCEPT !.zs = zsArg])

\* reading the attribute zs
ReadZs == Queried("get_zs", Out(Ok, << <<"zs", ZsGetter(lens)>> >>), NoArgs)

InitLens ==
    /\ \E zl \in ZlIn : lens = NewLens(zl, "WMAP7")
    /\ last = NoCall
    /\ bg_succeeded = FALSE
    /\ fit = FitIdle

NextLens ==
    \/ SetBackground
    \/ SetCosmo
    \/ SetTheta1
    \/ SetTheta2
    \/ SetZs
    \/ SetK
    \/ SetY1
    \/ SetY2
    \/ SetYt
    \/ GetBackground
    \/ CalcSigmaCrit
    \/ ReadZs

SpecLens == InitLens /\ [][NextLens]_vars

\* assigning and reading the attribute r
SetR ==
    \E value \in RSet : Changed("r", SetROn(lens, value), FALSE, NoArgs)

ReadR == Queried("get_r", Out(Ok, << <<"r", RGetter(lens)>> >>), NoArgs)

\* the attribute r, with the operations the radius depends on
NextR ==
    \/ SetBackground
    \/ SetCosmo
    \/ SetTheta1
    \/ SetTheta2
    \/ SetR
    \/ ReadR

SpecR == InitLens /\ [][NextR]_vars

---------------------------------------------------------------------------
(* fit_nfw_profile_lstq                                                    *)

\* bounds of the model: the solver's residual evaluations after the first,
\* and the bootstrap realisations
MaxEvals == 2
MaxBootN == 2

Modules == {"shearfit", "gammaProf"}

\* sources['r'] and the tangential shear scaled to delta sigma
SourceData(l) ==
    [r |-> l.r.v,
     dSigma |-> [i \in 1..Len(l.r.v) |-> l.yt.v[i] * SigmaCrit(l, l.zs).v[i]]]

\* calc_delta_sigma_binned, one radial bin: the bin means
BinnedData(r, d) == [r |-> <<Mean(r)>>, dSigma |-> <<Mean(d)>>]

\* the profile the residual function is handed, and its update
TargetProfile(f) == IF f.target = "caller" THEN f.caller ELSE f.copy
WithTarget(f, p) ==
    IF f.target = "caller" THEN [f EXCEPT !.caller = p] ELSE [f EXCEPT !.copy = p]

\* (faulty variant: an assignment instead of a deep copy)
DeepcopyAlias(ref) == ref
\* copy.deepcopy(profile): a reference to a new object
Deepcopy(ref) == "copy"

\* the bounds handed to least_squares
LowerBounds(f) ==
    IF f.cM THEN <<f.r200_bounds[1]>> ELSE <<f.r200_bounds[1], f.conc_bounds[1]>>
UpperBounds(f) ==
    IF f.cM THEN <<f.r200_bounds[2]>> ELSE <<f.r200_bounds[2], f.conc_bounds[2]>>

\* least_squares refuses bounds that are not lb < ub and an x0 outside them
Infeasible(f) ==
    \E i \in 1..Len(f.fit_params) :
        \/ LowerBounds(f)[i] >= UpperBounds(f)[i]
        \/ f.fit_params[i] < LowerBounds(f)[i]
        \/ f.fit_params[i] > UpperBounds(f)[i]

\* the points the solver may try: those within the bounds, in steps of 1.0
Steps(lo, hi) == {a \in lo..hi : a % Unit = 0}
TrialPoints(f) ==
    IF f.cM THEN {<<a>> : a \in Steps(f.r200_bounds[1], f.r200_bounds[2])}
    ELSE {<<a, b>> : a \in Steps(f.r200_bounds[1], f.r200_bounds[2]),
                     b \in Steps(f.conc_bounds[1], f.conc_bounds[2])}

\* the data of the running solve: the full data, or the bootstrap resample
SolveR(f) == IF f.pc = "boot_solve" THEN f.r_i ELSE f.r
SolveD(f) == IF f.pc = "boot_solve" THEN f.dSigma_data_i ELSE f.dSigma_data

\* the solver's cost at a point
Cost(f, x) == SumSq(Residuals(x, TargetProfile(f), SolveR(f), SolveD(f)))

\* one call of the residual function by the solver
Evaluated(f, x) ==
    [WithTarget(f, ResidualProfile(x, TargetProfile(f)))
        EXCEPT !.params = x,
               !.residuals = Residuals(x, TargetProfile(f), SolveR(f), SolveD(f))]

\* lines 91-117: the data, the initial guess, the free parameters
LstqEntry(f, l, module, cM, bootstrap, bootN, Nsigma, bin_data, bins, rb, cb) ==
    LET g == [f EXCEPT !.fn = "lstq", !.module = module, !.cM = cM,
                       !.bootstrap = bootstrap, !.bootN = bootN,
                       !.Nsigma = Nsigma, !.bin_data = bin_data, !.bins = bins,
                       !.r200_bounds = rb, !.conc_bounds = cb,
                       !.target = "caller"]
        bg == GetBackgroundOf(l)
    IN  IF bg.outcome # Ok
        THEN [g EXCEPT !.pc = "raised", !.outcome = bg.outcome]
        ELSE IF bin_data /\ bins = 0
        THEN [g EXCEPT !.pc = "raised", !.outcome = ConfigurationError,
                       !.r_all = SourceData(l).r,
                       !.dSigma_data_all = SourceData(l).dSigma]
        ELSE LET all == SourceData(l)
                 used == IF bin_data THEN BinnedData(all.r, all.dSigma) ELSE all
             IN  [g EXCEPT !.pc = "solve", !.outcome = "running",
                           !.r_all = all.r, !.dSigma_data_all = all.dSigma,
                           !.r = used.r, !.dSigma_data = used.dSigma,
                           !.rad_init = f.caller.r200c,
                           !.conc_init = f.caller.c,
                           !.fit_params = IF cM THEN <<f.caller.r200c>>
                                          ELSE <<f.caller.r200c, f.caller.c>>,
                           !.nfev = 0]

\* optimize.least_squares is entered: it raises, or evaluates the residual
\* at the initial guess
SolverEntered(f) ==
    IF Infeasible(f) THEN [f EXCEPT !.pc = "raised", !.outcome = ValueError]
    ELSE [Evaluated(f, f.fit_params) EXCEPT !.x = f.fit_params, !.nfev = 1]

\* the solver evaluates the residual at a trial point, and moves there or not
SolverTried(f, t, accept) ==
    [Evaluated(f, t) EXCEPT !.x = IF accept THEN t ELSE f.x, !.nfev = f.nfev + 1]

\* the solver returns its current point, converged or not
SolverReturned(f, success) ==
    LET out == [x |-> f.x, success |-> success, set |-> TRUE]
    IN  IF f.pc = "solve" THEN [f EXCEPT !.res = out, !.pc = "post"]
        ELSE [f EXCEPT !.res_i = out, !.pc = "boot_record"]

\* (faulty variant: the error fields are left as they are)
FinalParamsKeepingErrors(f) ==
    IF f.cM THEN [f.caller EXCEPT !.c = CMConc(RadiusToMass(f.caller))]
    ELSE f.caller

\* lines 123-133: the concentration of the c-M relation and the errors
\* without bootstrap
FinalParams(f) ==
    LET p == f.caller
        m200c == RadiusToMass(p)
    IN  IF f.module = "shearfit"
        THEN IF f.cM
             THEN [p EXCEPT !.c = CMConc(m200c), !.c_err = CMScatter(m200c),
                            !.r200c_err = 0]
             ELSE [p EXCEPT !.c_err = 0, !.r200c_err = 0]
        ELSE IF f.cM THEN [p EXCEPT !.c = CMConc(m200c)] ELSE p

\* (faulty variant: an unsuccessful solver status is turned into an exception)
PostSolveChecked(f) ==
    IF ~f.res.success THEN [f EXCEPT !.pc = "raised", !.outcome = "ConvergenceError"]
    ELSE [f EXCEPT !.caller = f.caller, !.pc = "done", !.outcome = "returned"]

\* lines 123-144 and 180-183: after the solver; the bootstrap is set up, or
\* the function returns
PostSolve(f) ==
    LET g == [f EXCEPT !.caller = FinalParams(f)]
    IN  IF f.bootstrap
        THEN [g EXCEPT !.copy = g.caller, !.target = Deepcopy("caller"),
                       !.params_bootstrap = <<>>,
                       !.c_intr_scatter_bootstrap = <<>>,
                       !.boot_n = 0, !.pc = "boot"]
        ELSE [g EXCEPT !.param_err = <<0, 0>>, !.pc = "done",
                       !.outcome = "returned"]

\* np.random.choice: the index draws of one realisation (as multisets)
Resamples(f) ==
    LET size == IF f.module = "shearfit" THEN Len(f.r_all) ELSE Len(f.r_all) \div 2
    IN  {b \in [1..size -> 1..Len(f.r_all)] :
            \A i \in 1..size : \A j \in 1..size : i <= j => b[i] <= b[j]}

\* lines 146-158: one realisation is set up
BootStarted(f, boot_i) ==
    LET ri == [i \in 1..Len(boot_i) |-> f.r_all[boot_i[i]]]
        di == [i \in 1..Len(boot_i) |-> f.dSigma_data_all[boot_i[i]]]
        used == IF f.bin_data THEN BinnedData(ri, di)
                ELSE [r |-> [i \in 1..Len(boot_i) |-> f.r[boot_i[i]]],
                      dSigma |-> [i \in 1..Len(boot_i) |-> f.dSigma_data[boot_i[i]]]]
        g == WithTarget(f, [TargetProfile(f) EXCEPT !.r200c = f.rad_init,
                                                    !.c = f.conc_init])
    IN  [g EXCEPT !.r_i = used.r, !.dSigma_data_i = used.dSigma,
                  !.nfev = 0, !.pc = "boot_solve"]

\* lines 163-169: the realisation's parameters are recorded
BootRecorded(f) ==
    LET m200c == RadiusToMass(TargetProfile(f))
        row == IF f.cM THEN <<f.res_i.x[1], CMConc(m200c)>> ELSE f.res_i.x
        scatter == IF f.cM /\ f.module = "shearfit" THEN CMScatter(m200c) ELSE 0
    IN  [f EXCEPT !.params_bootstrap = Append(@, row),
                  !.c_intr_scatter_bootstrap = Append(@, scatter),
                  !.m200c_bootstrap = Append(@, IF f.cM THEN m200c ELSE 0),
                  !.boot_n = f.boot_n + 1, !.pc = "boot"]

\* (faulty variant: the intrinsic scatter replaces the spread)
ParamErrScatterOnly(f) ==
    IF f.module = "shearfit"
    THEN <<0, Mean(f.c_intr_scatter_bootstrap)>>
    ELSE <<0, 0>>

\* the bootstrap errors: the spread of the realisations
ParamErr(f) ==
    LET rs == [i \in 1..Len(f.params_bootstrap) |-> f.params_bootstrap[i][1]]
        cs == [i \in 1..Len(f.params_bootstrap) |-> f.params_bootstrap[i][2]]
    IN  IF f.module = "shearfit"
        THEN <<Std(rs), Std(cs) + Mean(f.c_intr_scatter_bootstrap)>>
        ELSE <<f.Nsigma * Std(rs), f.Nsigma * Std(cs)>>

\* lines 171-183: the errors are computed and stored, the function returns
BootFinished(f) ==
    LET e == ParamErr(f)
        p == IF f.module = "shearfit"
             THEN [f.caller EXCEPT !.r200c_err = e[1], !.c_err = e[2]]
             ELSE f.caller
    IN  [f EXCEPT !.param_err = e, !.caller = p, !.pc = "done",
                  !.outcome = "returned"]

\* the arguments of a call: r200_bounds, conc_bounds, bins (0 for None)
RBoundsIn == {<<Unit, 2 * Unit>>, <<2 * Unit, 3 * Unit>>}
CBoundsIn == {<<Unit, 2 * Unit>>}
BinsIn == {0, 1}

FitCall ==
    /\ fit.pc = "idle"
    /\ \E module \in Modules, cM \in BOOLEAN, bootstrap \in BOOLEAN,
          bootN \in 1..MaxBootN, Nsigma \in {1, 2}, bin_data \in BOOLEAN,
          bins \in BinsIn, rb \in RBoundsIn, cb \in CBoundsIn :
        /\ bootstrap \/ bootN = 1
        /\ (bootstrap /\ module = "gammaProf") \/ Nsigma = 1
        /\ module = "shearfit" \/ ~bin_data
        /\ bin_data \/ bins = 0
        /\ bootstrap => (fit.caller.r200c = 2 * Unit /\ rb = <<Unit, 2 * Unit>>)
        /\ fit' = LstqEntry(fit, lens, module, cM, bootstrap, bootN, Nsigma,
                            bin_data, bins, rb, cb)
    /\ UNCHANGED <<lens, last, bg_succeeded>>

SolverStart ==
    /\ fit.pc \in {"solve", "boot_solve"}
    /\ fit.nfev = 0
    /\ fit' = SolverEntered(fit)
    /\ UNCHANGED <<lens, last, bg_succeeded>>

SolverTrial ==
    /\ fit.pc \in {"solve", "boot_solve"}
    /\ fit.nfev >= 1
    /\ fit.nfev <= MaxEvals
    /\ \E t \in TrialPoints(fit), accept \in BOOLEAN :
        /\ accept => Cost(fit, t) < Cost(fit, fit.x)
        /\ fit' = SolverTried(fit, t, accept)
    /\ UNCHANGED <<lens, last, bg_succeeded>>

SolverReturn ==
    /\ fit.pc \in {"solve", "boot_solve"}
    /\ fit.nfev >= 1
    /\ \E success \in BOOLEAN : fit' = SolverReturned(fit, success)
    /\ UNCHANGED <<lens, last, bg_succeeded>>

AfterSolve ==
    /\ fit.pc = "post"
    /\ fit' = PostSolve(fit)
    /\ UNCHANGED <<lens, last, bg_succeeded>>

BootStart ==
    /\ fit.pc = "boot"
    /\ fit.boot_n < fit.bootN
    /\ \E boot_i \in Resamples(fit) : fit' = BootStarted(fit, boot_i)
    /\ UNCHANGED <<lens, last, bg_succeeded>>

BootRecord ==
    /\ fit.pc = "boot_record"
    /\ fit' = BootRecorded(fit)
    /\ UNCHANGED <<lens, last, bg_succeeded>>

BootFinish ==
    /\ fit.pc = "boot"
    /\ fit.boot_n = fit.bootN
    /\ fit' = BootFinished(fit)
    /\ UNCHANGED <<lens, last, bg_succeeded>>

\* the lens objects a fit is called with: one without a catalog, one whose
\* catalog was set with the tangential shear
LensWithCatalog ==
    SetBackgroundOn(NewLens(1, "WMAP7"), Asc(2), Asc(2), Asc(2),
                    None, None, Desc(2), None, None).obj

\* the profiles a fit is called with: a new one, and one that carries the
\* errors of an earlier fit
ProfilesIn == {Profile(Unit, Unit, 0, 0), Profile(2 * Unit, Unit, 3, 4)}

InitFit ==
    /\ \/ lens = NewLens(1, "WMAP7") /\ bg_succeeded = FALSE /\ last = NoCall
       \/ /\ lens = LensWithCatalog
          /\ bg_succeeded = TRUE
          /\ last = [NoCall EXCEPT !.op = "set_background", !.args.yt = Desc(2)]
    /\ \E p \in ProfilesIn : fit = FitIdleWith(p)

NextFit ==
    \/ FitCall
    \/ SolverStart
    \/ SolverTrial
    \/ SolverReturn
    \/ AfterSolve
    \/ BootStart
    \/ BootRecord
    \/ BootFinish

SpecFit == InitFit /\ [][NextFit]_vars

---------------------------------------------------------------------------
(* fit_nfw_profile_gridscan                                                *)

\* bound of the model: the grid resolution n
MaxN == 3

\* np.linspace(lo, hi, n), for bounds whose difference the n-1 steps divide
Linspace(lo, hi, n) ==
    [k \in 1..n |-> IF n = 1 THEN lo ELSE lo + ((k - 1) * (hi - lo)) \div (n - 1)]

\* (faulty variant: the grid point of cell (i, j) with the two indices exchanged)
GridParamsSwapped(f, i, j) == <<f.rsamp[i], f.csamp[j]>>
\* grid_params of the cell in row i and column j
GridParams(f, i, j) == <<f.rsamp[j], f.csamp[i]>>

\* (faulty variant: missing bins are not noticed)
GridEntryUnchecked(f, l, module, n, bin_data, bins, rb, cb) ==
    LET all == SourceData(l)
    IN  IF GetBackgroundOf(l).outcome # Ok
        THEN [f EXCEPT !.fn = "gridscan", !.bin_data = bin_data, !.bins = bins,
                       !.pc = "raised", !.outcome = GetBackgroundOf(l).outcome]
        ELSE [f EXCEPT !.fn = "gridscan", !.module = module, !.n = n,
                       !.bin_data = bin_data, !.bins = bins,
                       !.r200_bounds = rb, !.conc_bounds = cb,
                       !.copy = f.caller, !.target = Deepcopy("caller"),
                       !.rsamp = Linspace(rb[1], rb[2], n),
                       !.csamp = Linspace(cb[1], cb[2], n),
                       !.pc = "grid", !.outcome = "running",
                       !.r = all.r, !.dSigma_data = all.dSigma,
                       !.cost = [i \in 1..n |-> [j \in 1..n |-> 0]],
                       !.gi = 0, !.gj = 0]

\* lines 290-307: the copy, the sample points, the data, the empty cost
GridEntry(f, l, module, n, bin_data, bins, rb, cb) ==
    LET g == [f EXCEPT !.fn = "gridscan", !.module = module, !.n = n,
                       !.bin_data = bin_data, !.bins = bins,
                       !.r200_bounds = rb, !.conc_bounds = cb,
                       !.copy = f.caller, !.target = Deepcopy("caller"),
                       !.rsamp = Linspace(rb[1], rb[2], n),
                       !.csamp = Linspace(cb[1], cb[2], n)]
        bg == GetBackgroundOf(l)
    IN  IF bg.outcome # Ok
        THEN [g EXCEPT !.pc = "raised", !.outcome = bg.outcome]
        ELSE IF bin_data /\ bins = 0
        THEN [g EXCEPT !.pc = "raised", !.outcome = ConfigurationError]
        ELSE LET all == SourceData(l)
                 used == IF bin_data THEN BinnedData(all.r, all.dSigma) ELSE all
             IN  [g EXCEPT !.pc = "grid", !.outcome = "running",
                           !.r = used.r, !.dSigma_data = used.dSigma,
                           !.cost = [i \in 1..n |-> [j \in 1..n |-> 0]],
                           !.gi = 0, !.gj = 0]

\* lines 308-312: the cell in row gi, column gj (counted from 0)
GridCellDone(f) ==
    LET i == f.gi + 1
        j == f.gj + 1
        grid_params == GridParams(f, i, j)
        residuals == Residuals(grid_params, TargetProfile(f), f.r, f.dSigma_data)
        g == Evaluated(f, grid_params)
    IN  [g EXCEPT !.cost[i][j] = SumSq(residuals),
                  !.gj = IF j = f.n THEN 0 ELSE j,
                  !.gi = IF j = f.n THEN i ELSE f.gi]

\* np.meshgrid(rsamp, csamp)
MeshR(f) == [i \in 1..f.n |-> [j \in 1..f.n |-> f.rsamp[j]]]
MeshC(f) == [i \in 1..f.n |-> [j \in 1..f.n |-> f.csamp[i]]]

\* line 314
GridReturned(f) == [f EXCEPT !.pc = "done", !.outcome = "returned"]

\* the bounds of a scan: pairs whose difference the n-1 steps divide
GridBoundsIn(n) ==
    {b \in {<<0, 2 * Unit>>, <<Unit, 4 * Unit>>, <<0, 6 * Unit>>,
            <<2 * Unit, 2 * Unit>>} :
        n = 1 \/ (b[2] - b[1]) % (n - 1) = 0}

GridCall ==
    /\ fit.pc = "idle"
    /\ \E module \in Modules, n \in 1..MaxN, bin_data \in BOOLEAN,
          bins \in BinsIn :
        /\ module = "shearfit" \/ ~bin_data
        /\ bin_data \/ bins = 0
        /\ \E rb \in GridBoundsIn(n), cb \in GridBoundsIn(n) :
            fit' = GridEntry(fit, lens, module, n, bin_data, bins, rb, cb)
    /\ UNCHANGED <<lens, last, bg_succeeded>>

GridCell ==
    /\ fit.pc = "grid"
    /\ fit.gi < fit.n
    /\ fit' = GridCellDone(fit)
    /\ UNCHANGED <<lens, last, bg_succeeded>>

GridReturn ==
    /\ fit.pc = "grid"
    /\ fit.gi = fit.n
    /\ fit' = GridReturned(fit)
    /\ UNCHANGED <<lens, last, bg_succeeded>>

NextGrid ==
    \/ GridCall
    \/ GridCell
    \/ GridReturn

SpecGrid == InitFit /\ [][NextGrid]_vars

\* fit_nfw_profile_lstq and fit_nfw_profile_gridscan together
NextBoth == NextFit \/ NextGrid
SpecBoth == InitFit /\ [][NextBoth]_vars

---------------------------------------------------------------------------
(* Properties of obs_lens_system, checked under SpecLens                   *)

\* the last call was set_background
SetBackgroundCalled == last.op = "set_background"

\* C1: set_background called with a shear component (y1 and/or y2) together
\* with yt, or with none of y1, y2, yt, raises the configuration error and
\* returns nothing, whatever the other arguments and the object's state.
C1_BothOrNeitherRejected ==
    (/\ SetBackgroundCalled
     /\ \/ ((last.args.y1 # None \/ last.args.y2 # None) /\ last.args.yt # None)
        \/ (last.args.y1 = None /\ last.args.y2 = None /\ last.args.yt = None))
    => (last.outcome = ConfigurationError /\ last.ret = NoData)

\* C1 witness: on an object that holds a catalog with convergence, a call
\* passing y1 and yt has been rejected
C1_Witness ==
    /\ SetBackgroundCalled
    /\ last.args.y1 # None /\ last.args.y2 = None /\ last.args.yt # None
    /\ last.outcome = ConfigurationError
    /\ lens.has_sources /\ lens.has_kappa

\* C2: assigning yt through its setter while components are in use sets y1
\* and y2 to None, leaves components mode and warns without failing; from
\* then on (until a set_background call supplies components again) every
\* assignment to y1 or y2 through their setters raises the configuration
\* error and changes none of y1, y2, yt.
C2_YtSwitchesMode ==
    [][ /\ (last'.op = "yt" /\ lens.has_shear12)
           => /\ lens'.y1 = None /\ lens'.y2 = None
              /\ ~lens'.has_shear12
              /\ last'.warned /\ last'.outcome = Ok
        /\ (last'.op \in {"y1", "y2"} /\ ~lens.has_shear12)
           => /\ last'.outcome = ConfigurationError
              /\ lens'.y1 = lens.y1 /\ lens'.y2 = lens.y2 /\ lens'.yt = lens.yt
        /\ (~lens.has_shear12 /\ last'.op # "set_background")
           => ~lens'.has_shear12 ]_vars

\* C2 witness: set_background with components has succeeded, yt was then
\* assigned (y1 and y2 are None, yt is the assigned array), and an
\* assignment to y1 has been rejected
C2_Witness ==
    /\ bg_succeeded
    /\ last.op = "y1" /\ last.outcome = ConfigurationError
    /\ lens.y1 = None /\ lens.y2 = None /\ lens.yt \in YtSet
    /\ ~lens.has_shear12

\* C3 (as claimed): once a set_background call has succeeded, a later
\* set_background call that supplies only yt returns normally and leaves the
\* object in yt-mode: the components flag is off and the tangential shear is
\* the supplied yt, also when the earlier call supplied (y1, y2).
C3_YtOnlyCallGivesYtMode ==
    (/\ bg_succeeded
     /\ SetBackgroundCalled
     /\ last.args.y1 = None /\ last.args.y2 = None /\ last.args.yt # None)
    => /\ last.outcome = Ok
       /\ ~lens.has_shear12
       /\ lens.yt = last.args.yt

\* the calls C9 speaks of
C9_Ops == {"set_background", "theta1", "theta2", "zs", "y1", "y2", "yt", "cosmo"}

\* C9: whenever a set_background call or an assignment to theta1, theta2,
\* zs, y1, y2, yt or cosmo has returned normally, r is the projected radius
\* of the current theta1, theta2, cosmology and zl, and in components mode
\* yt is the magnitude of the current y1 and y2.
C9_DerivedNeverStale ==
    (last.op \in C9_Ops /\ last.outcome = Ok)
    => /\ lens.r = ProjectedRadius(lens.theta1, lens.theta2, lens.cosmo, lens.zl)
       /\ lens.has_shear12 => lens.yt = ShearMagnitude(lens.y1, lens.y2)

\* C9 witness: in components mode, after set_background, theta1 and the
\* cosmology have been changed and y1 has just been assigned
C9_Witness ==
    /\ last.op = "y1" /\ last.outcome = Ok
    /\ lens.has_shear12
    /\ lens.y1 \in Y1Set /\ lens.theta1 \in Theta1Set /\ lens.cosmo # "WMAP7"

\* C10 (as claimed): on an object on which set_background has never
\* succeeded, get_background and calc_sigma_crit with zs omitted fail with
\* the state error and return no data, and calc_sigma_crit with an explicit
\* zs does not fail with the state error.
C10_NoCatalogNoData ==
    ~bg_succeeded
    => /\ last.op = "get_background"
            => (last.outcome = StateError /\ last.ret = NoData)
       /\ (last.op = "calc_sigma_crit" /\ last.args.zs = None)
            => (last.outcome = StateError /\ last.ret = NoData)
       /\ (last.op = "calc_sigma_crit" /\ last.args.zs # None)
            => last.outcome # StateError

\* the field names of a record get_background returned
FieldNames(ret) == {ret[i][1] : i \in 1..Len(ret)}

\* the columns every record has, and the components when in use, are arrays
MandatoryColumnsSet ==
    /\ lens.has_sources
    /\ IsArr(lens.theta1) /\ IsArr(lens.theta2) /\ IsArr(lens.r)
    /\ IsArr(lens.zs) /\ IsArr(lens.yt)
    /\ lens.has_shear12 => (IsArr(lens.y1) /\ IsArr(lens.y2))

\* C11 (as claimed): get_background on a usable catalog returns a record
\* whose fields are theta1, theta2, r, zs, yt, with y1 and y2 exactly in
\* components mode, k exactly when the catalog's convergence is not None and
\* rho exactly when its density is not None.
C11_FieldsFollowCatalog ==
    (last.op = "get_background" /\ MandatoryColumnsSet)
    => /\ last.outcome = Ok
       /\ FieldNames(last.ret) =
            {"theta1", "theta2", "r", "zs", "yt"}
            \cup (IF lens.has_shear12 THEN {"y1", "y2"} ELSE {})
            \cup (IF IsArr(lens.k) THEN {"k"} ELSE {})
            \cup (IF IsArr(lens.rho) THEN {"rho"} ELSE {})

\* C12: get_background changes nothing of the lens object, and a second
\* call right after a first returns what the first returned.
C12_GetBackgroundReadsOnly ==
    [][last'.op = "get_background"
       => /\ lens' = lens
          /\ last.op = "get_background"
             => (last'.ret = last.ret /\ last'.outcome = last.outcome)]_vars

\* C12 witness: get_background has returned a record of a catalog with
\* shear components and a convergence
C12_Witness ==
    /\ last.op = "get_background" /\ last.outcome = Ok
    /\ {"y1", "y2", "k"} \subseteq FieldNames(last.ret)

\* C17 (as claimed): the record get_background returns is in ascending
\* order of r.
C17_ReturnedSortedByR ==
    (last.op = "get_background" /\ last.outcome = Ok)
    => \A i \in 1..(Len(last.ret[3][2].v) - 1) :
          last.ret[3][2].v[i] <= last.ret[3][2].v[i + 1]

\* C18 (as claimed): once a catalog is set, reading the attribute zs gives
\* the source redshifts the object holds.
C18_ZsReadsRedshifts ==
    (last.op = "get_zs" /\ bg_succeeded) => last.ret[1][2] = lens.zs

\* C19 (as claimed): set_background with exactly one of y1, y2 and no yt
\* ends with the configuration error.
C19_OneComponentRejected ==
    (/\ last.op = "set_background"
     /\ (last.args.y1 = None) # (last.args.y2 = None)
     /\ last.args.yt = None)
    => last.outcome = ConfigurationError

---------------------------------------------------------------------------
(* Properties of the attribute r, checked under SpecR                      *)

\* C21 (as claimed): on an object with a catalog, an assignment to the
\* attribute r raises an error, and reading r gives the radius the object
\* derived from its theta1, theta2 and cosmology.
C21_RadiusReadOnly ==
    /\ (last.op = "r" /\ bg_succeeded) => last.outcome = ConfigurationError
    /\ (last.op = "get_r" /\ bg_succeeded) => last.ret[1][2] = lens.r

---------------------------------------------------------------------------
(* Properties of fit_nfw_profile_lstq, checked under SpecFit               *)

LstqReturned == fit.fn = "lstq" /\ fit.pc = "done"

\* C4 (as claimed): when fit_nfw_profile_lstq returns, profile.r200c is the
\* solver's res.x[0]; without a c-M relation profile.c is res.x[1], with one
\* it is the relation's concentration for the mass of radius res.x[0].
C4_ProfileHoldsBestFit ==
    LstqReturned
    => /\ fit.caller.r200c = fit.res.x[1]
       /\ IF fit.cM
          THEN fit.caller.c =
                 CMConc(RadiusToMass([fit.caller EXCEPT !.r200c = fit.res.x[1]]))
          ELSE fit.caller.c = fit.res.x[2]

\* the bootstrap part of fit_nfw_profile_lstq is running
InBootstrap == fit.pc \in {"boot", "boot_solve", "boot_record"}

\* C5: no step of the bootstrap changes r200c or c of the caller's profile:
\* from the end of the full-data fit to the return they keep their values,
\* and only the error fields of the caller's profile are written.
C5_BootstrapKeepsFit ==
    [][InBootstrap => /\ fit'.caller.r200c = fit.caller.r200c
                      /\ fit'.caller.c = fit.caller.c]_vars

\* C5 witness: a bootstrap of two realisations has returned; the copy was
\* left at other parameters than the caller's profile, whose radius error
\* was written
C5_Witness ==
    /\ LstqReturned /\ fit.bootstrap /\ fit.module = "shearfit"
    /\ Len(fit.params_bootstrap) = 2
    /\ fit.copy.r200c # fit.caller.r200c
    /\ fit.caller.r200c_err > 0

\* C6 (as claimed): fit_nfw_profile_lstq does not return normally with a
\* result of a solver that failed to converge.
C6_NoReturnUnconverged == LstqReturned => fit.res.success

\* C6 (amended): a solver result with an unsuccessful status raises no
\* error: the function never ends in an exception once the solver has
\* returned, and what it returns is that result, success = False included.
C6_UnconvergedIsReturned ==
    (fit.fn = "lstq" /\ fit.res.set /\ ~fit.res.success)
    => /\ fit.pc # "raised"
       /\ fit.outcome \in {"running", "returned"}

\* C6 witness: the function has returned a result whose status is
\* unsuccessful
C6_Witness == LstqReturned /\ fit.res.set /\ ~fit.res.success

\* C13 (as claimed): when fit_nfw_profile_lstq returns with bootstrap
\* disabled, profile.r200c_err is 0 and profile.c_err is 0 without a c-M
\* relation and the relation's intrinsic scatter with one.
C13_ErrorsWithoutBootstrap ==
    (LstqReturned /\ ~fit.bootstrap)
    => /\ fit.caller.r200c_err = 0
       /\ fit.caller.c_err =
            IF fit.cM THEN CMScatter(RadiusToMass(fit.caller)) ELSE 0

\* C13 (amended): that holds of shearfit's function, the scatter being that
\* of the mass of the radius the profile holds at return; no step of
\* gammaProf's function writes either error field of the caller's profile.
C13_ErrorsWithoutBootstrapShearfit ==
    [][fit'.fn = "lstq"
       => /\ (fit'.module = "shearfit" /\ fit'.pc = "done" /\ ~fit'.bootstrap)
              => /\ fit'.caller.r200c_err = 0
                 /\ fit'.caller.c_err =
                      IF fit'.cM THEN CMScatter(RadiusToMass(fit'.caller))
                      ELSE 0
          /\ fit'.module = "gammaProf"
              => /\ fit'.caller.r200c_err = fit.caller.r200c_err
                 /\ fit'.caller.c_err = fit.caller.c_err]_vars

\* C13 witness: shearfit's function has returned without bootstrap, with a
\* c-M relation, on a profile that carried other errors before
C13_Witness ==
    /\ LstqReturned /\ ~fit.bootstrap /\ fit.cM /\ fit.module = "shearfit"
    /\ fit.rad_init = 2 * Unit
    /\ fit.caller.r200c_err = 0 /\ fit.caller.c_err > 0

\* C14 (as claimed): the errors shearfit's fit_nfw_profile_lstq returns are
\* the error fields of the profile at return.
C14_ReturnedErrorsAreProfileErrors ==
    (LstqReturned /\ fit.module = "shearfit")
    => fit.param_err = <<fit.caller.r200c_err, fit.caller.c_err>>

\* the bootstrap samples of the radius and of the concentration
RadiusSamples == [i \in 1..Len(fit.params_bootstrap) |-> fit.params_bootstrap[i][1]]
ConcSamples == [i \in 1..Len(fit.params_bootstrap) |-> fit.params_bootstrap[i][2]]
\* the relation's intrinsic scatter at the mass of each realisation
ScatterSamples ==
    [i \in 1..Len(fit.m200c_bootstrap) |-> CMScatter(fit.m200c_bootstrap[i])]

\* C15 (as claimed): with bootstrap the radius error is confidenceSigma
\* times the standard deviation of the radius samples, the concentration
\* error confidenceSigma times that of the concentration samples, plus the
\* mean intrinsic scatter of the realisations when a c-M relation is used.
C15_BootstrapErrors ==
    (LstqReturned /\ fit.bootstrap)
    => fit.param_err =
         <<fit.Nsigma * Std(RadiusSamples),
           fit.Nsigma * Std(ConcSamples)
             + (IF fit.cM THEN Mean(ScatterSamples) ELSE 0)>>

\* C15 (amended): shearfit's function has no confidence factor: its errors
\* are the standard deviations, plus the mean intrinsic scatter for the
\* concentration with a c-M relation; gammaProf's function returns Nsigma
\* times the standard deviations and adds no scatter.
C15_BootstrapErrorsPerModule ==
    (LstqReturned /\ fit.bootstrap)
    => fit.param_err =
         IF fit.module = "shearfit"
         THEN <<Std(RadiusSamples),
                Std(ConcSamples) + (IF fit.cM THEN Mean(ScatterSamples) ELSE 0)>>
         ELSE <<fit.Nsigma * Std(RadiusSamples), fit.Nsigma * Std(ConcSamples)>>

\* C15 witness: a bootstrap of two realisations that differ in radius and
\* concentration has returned, with a c-M relation
C15_Witness ==
    /\ LstqReturned /\ fit.bootstrap /\ fit.cM
    /\ Len(fit.params_bootstrap) = 2
    /\ Std(RadiusSamples) > 0 /\ Std(ConcSamples) > 0
    /\ Mean(ScatterSamples) > 0

---------------------------------------------------------------------------
(* Properties of both fitting functions, checked under SpecBoth            *)

\* the call was made with binning requested and no bins
BinsMissing == fit.fn \in {"lstq", "gridscan"} /\ fit.bin_data /\ fit.bins = 0

\* C16 (as claimed): a call with binning requested and no bins ends with
\* the configuration error, before any residual evaluation, the caller's
\* profile unchanged.
C16_MissingBinsRejected ==
    BinsMissing
    => /\ fit.pc = "raised" /\ fit.outcome = ConfigurationError
       /\ fit.nfev = 0 /\ fit.params = <<>>

\* C16 (amended): that holds when the lens has a catalog get_background can
\* return; otherwise the call ends with get_background's error, which comes
\* first. Either way the step of the call leaves the caller's profile as
\* it was and no residual is evaluated.
C16_MissingBinsRejectedAfterCatalog ==
    [][(fit.pc = "idle" /\ fit'.bin_data /\ fit'.bins = 0)
       => /\ fit'.pc = "raised"
          /\ fit'.outcome = IF GetBackgroundOf(lens).outcome = Ok
                            THEN ConfigurationError
                            ELSE GetBackgroundOf(lens).outcome
          /\ fit'.caller = fit.caller
          /\ fit'.nfev = 0 /\ fit'.params = <<>>]_vars

\* C16 witness: a grid scan over a lens with a catalog was refused for its
\* missing bins
C16_Witness ==
    /\ BinsMissing /\ fit.fn = "gridscan" /\ lens.has_sources
    /\ fit.pc = "raised" /\ fit.outcome = ConfigurationError

---------------------------------------------------------------------------
(* Properties of fit_nfw_profile_gridscan, checked under SpecGrid          *)

\* C7: no step of fit_nfw_profile_gridscan changes the caller's profile,
\* whether the call returns or raises.
C7_GridscanKeepsProfile == [][fit'.caller = fit.caller]_vars

\* C7 witness: a scan has returned, having moved its copy away from the
\* caller's parameters
C7_Witness ==
    /\ fit.fn = "gridscan" /\ fit.pc = "done" /\ fit.n >= 2
    /\ fit.copy.r200c # fit.caller.r200c

\* C8: in the result of fit_nfw_profile_gridscan, cost[i][j] is the sum of
\* squared residuals at the radius and concentration found at [i][j] of the
\* returned meshgrid; the concentration advances with the row and the radius
\* with the column, through the n linearly spaced values from the lower to
\* the upper bound.
C8_CostMatchesMeshgrid ==
    (fit.fn = "gridscan" /\ fit.pc = "done")
    => \A i \in 1..fit.n : \A j \in 1..fit.n :
        /\ fit.cost[i][j] =
             SumSq(Residuals(<<MeshR(fit)[i][j], MeshC(fit)[i][j]>>,
                             fit.caller, fit.r, fit.dSigma_data))
        /\ (fit.n - 1) * (MeshR(fit)[i][j] - fit.r200_bounds[1])
             = (j - 1) * (fit.r200_bounds[2] - fit.r200_bounds[1])
        /\ (fit.n - 1) * (MeshC(fit)[i][j] - fit.conc_bounds[1])
             = (i - 1) * (fit.conc_bounds[2] - fit.conc_bounds[1])
        /\ fit.n = 1 => (MeshR(fit)[i][j] = fit.r200_bounds[1]
                          /\ MeshC(fit)[i][j] = fit.conc_bounds[1])

\* C8 witness: a scan of at least two by two cells over different radius and
\* concentration bounds has returned
C8_Witness ==
    /\ fit.fn = "gridscan" /\ fit.pc = "done" /\ fit.n >= 2
    /\ fit.r200_bounds # fit.conc_bounds
    /\ fit.cost[1][2] # fit.cost[2][1]

====
